---- MODULE Spec2Model ----
(***************************************************************************)
(* URL shortener: key generator (internal/id), Redis-backed mapping store  *)
(* (internal/storage) and the HTTP handlers that drive them                *)
(* (internal/http).                                                        *)
(*                                                                         *)
(* Strings are TLA+ strings; the inputs are ASCII, so Go's len (bytes) and *)
(* range (runes) both see one unit per character.  Time is counted in      *)
(* hours, the unit of DefaultTTL; the store keeps, per key, the time left  *)
(* before it expires.                                                      *)
(***************************************************************************)
EXTENDS Integers, Sequences, FiniteSets, TLC

VARIABLES
    redis,     \* the remote store: key -> [url, ttl]; and, as history, orig (the
               \* time left to the expiry set at creation) and refreshed
    pc,        \* per caller: where its call or request stands ("idle": none)
    req,       \* per caller: the call or request it is running
    attempts,  \* per caller: CreateURL's loop counter
    cand,      \* per caller: CreateURL's `key`, the current candidate
    fetched,   \* per caller: Get's `url`, between its two commands
    calls,     \* per caller: how many calls of each kind its request has made
    out,       \* what the latest step returned or answered, and to whom
    tally,     \* per key: outcomes of Set and Delete calls in the key's current life
    nReqs      \* calls and requests started so far

vars == <<redis, pc, req, attempts, cand, fetched, calls, out, tally, nReqs>>

-----------------------------------------------------------------------------
(* Bounds of the model *)

NumProcs == 2
MaxReqs == 2

Procs == 1..NumProcs

-----------------------------------------------------------------------------
(* internal/id: the key generator *)

Base62Chars == "0123456789ABCDEFGHIJKLMNOPQRSTUVWXYZabcdefghijklmnopqrstuvwxyz"
KeyLength == 8
Radix == 62

CharAt(s, i) == SubSeq(s, i, i)

\* strings.ContainsRune(s, c)
ContainsRune(s, c) == \E i \in 1..Len(s) : CharAt(s, i) = c

\* NewGenerator: g.chars
chars == Base62Chars

\* Uint64Bytes with a fault: the two empty bytes are put after the six read,
\* so that the value has 64 bits.
Uint64BytesShifted(buf) == buf \o <<0, 0>>

\* binary.BigEndian.Uint64(append(make([]byte, 2), buf...)): the 64-bit value,
\* kept as its 8 big-endian bytes (the value does not fit a 32-bit integer).
Uint64Bytes(buf) == <<0, 0>> \o buf

\* num % 62 and num / 62 of a big-endian byte string, by long division.
RECURSIVE LongDiv(_, _, _, _)
LongDiv(num, i, rem, quot) ==
    IF i > Len(num) THEN [quot |-> quot, rem |-> rem]
    ELSE LET cur == rem * 256 + num[i]
         IN  LongDiv(num, i + 1, cur % Radix, Append(quot, cur \div Radix))

DivMod(num) == LongDiv(num, 1, 0, <<>>)

\* Encode with a fault: stops at num = 0 instead of filling KeyLength characters.
RECURSIVE EncodeUntilZero(_, _, _)
EncodeUntilZero(num, i, builder) ==
    IF i >= KeyLength \/ (\A j \in 1..Len(num) : num[j] = 0) THEN builder
    ELSE LET dm == DivMod(num)
         IN  EncodeUntilZero(dm.quot, i + 1, builder \o CharAt(chars, dm.rem + 1))

\* Encode with a fault: the most significant digit comes first.
RECURSIVE EncodeMSBFirst(_, _, _)
EncodeMSBFirst(num, i, builder) ==
    IF i >= KeyLength THEN builder
    ELSE LET dm == DivMod(num)
         IN  EncodeMSBFirst(dm.quot, i + 1, CharAt(chars, dm.rem + 1) \o builder)

\* The loop `for i := 0; i < KeyLength; i++ { WriteByte(chars[num%62]); num /= 62 }`
RECURSIVE Encode(_, _, _)
Encode(num, i, builder) ==
    IF i >= KeyLength THEN builder
    ELSE LET dm == DivMod(num)
         IN  Encode(dm.quot, i + 1, builder \o CharAt(chars, dm.rem + 1))

\* Generate with a fault: the error of rand.Read is dropped and the key is
\* made of whatever the buffer holds.
GenerateUnchecked(buf, readErr) ==
    [key |-> Encode(Uint64Bytes(buf), 0, ""), err |-> "nil"]

\* Generate: readErr is rand.Read failing.
Generate(buf, readErr) ==
    IF readErr THEN [key |-> "", err |-> "unexpected EOF"]
    ELSE [key |-> Encode(Uint64Bytes(buf), 0, ""), err |-> "nil"]

\* ValidateKey with a fault: the length check is an upper bound only.
ValidateKeyAtMost(key) ==
    IF Len(key) > KeyLength THEN FALSE
    ELSE \A i \in 1..Len(key) : ContainsRune(chars, CharAt(key, i))

ValidateKey(key) ==
    IF Len(key) # KeyLength THEN FALSE
    ELSE \A i \in 1..Len(key) : ContainsRune(chars, CharAt(key, i))

-----------------------------------------------------------------------------
(* internal/storage: the Redis-backed store *)

DefaultTTL == 3

ErrNotFound == "url mapping not found"
ErrKeyExists == "key already exists"
ErrEmptyKey == "key cannot be empty"
ErrEmptyURL == "url cannot be empty"
\* Any error of the Redis client: connection refused, timeout, context cancelled.
ErrRedis == "redis: command failed"
Nil == "nil"

\* NewRedisStore: s.ttl
ttl == DefaultTTL

\* How a command sent to the remote store can end: answered; failed before it
\* reached the server ("unsent"); or executed by the server with the reply lost
\* to the client ("lost": a timeout or a cancelled context after the write).
Outcomes == {"answered", "unsent", "lost"}

Remove(r, k) == [x \in DOMAIN r \ {k} |-> r[x]]
Put(r, k, v) == [x \in DOMAIN r \cup {k} |-> IF x = k THEN v ELSE r[x]]

\* Fresh with a fault: the value is stored with no time to live (TTL -1).
FreshNoTTL(u, d) == [url |-> u, ttl |-> -1, orig |-> d, refreshed |-> FALSE]

\* A value just stored, with d left to live.
Fresh(u, d) == [url |-> u, ttl |-> d, orig |-> d, refreshed |-> FALSE]

\* RedisSetNX with a fault: a plain SET, which overwrites.
RedisSet(r, k, u, d) == [redis |-> Put(r, k, Fresh(u, d)), reply |-> TRUE]

\* RedisSetNX with a fault: any key in the store blocks the insert.
RedisSetNXAny(r, k, u, d) ==
    IF r # <<>> THEN [redis |-> r, reply |-> FALSE]
    ELSE [redis |-> Put(r, k, Fresh(u, d)), reply |-> TRUE]

\* RedisSetNX with a fault: a key already there keeps its value and gets d to
\* live again.
RedisSetNXTouch(r, k, u, d) ==
    IF k \in DOMAIN r
    THEN [redis |-> [r EXCEPT ![k].ttl = d, ![k].refreshed = TRUE], reply |-> FALSE]
    ELSE [redis |-> Put(r, k, Fresh(u, d)), reply |-> TRUE]

\* SET key url EX d NX: insert, with d left to live, only if the key is absent.
RedisSetNX(r, k, u, d) ==
    IF k \in DOMAIN r THEN [redis |-> r, reply |-> FALSE]
    ELSE [redis |-> Put(r, k, Fresh(u, d)), reply |-> TRUE]

\* RedisGet with a fault: an absent key reads as an empty value.
RedisGetEmpty(r, k) ==
    IF k \in DOMAIN r THEN [val |-> r[k].url, nil |-> FALSE]
    ELSE [val |-> "", nil |-> FALSE]

\* GET key: the value, or redis.Nil.
RedisGet(r, k) ==
    IF k \in DOMAIN r THEN [val |-> r[k].url, nil |-> FALSE]
    ELSE [val |-> "", nil |-> TRUE]

\* RedisExpire with a fault: adds the duration to the remaining time to live.
RedisExpireAdd(r, k, d) ==
    IF k \in DOMAIN r
    THEN [redis |-> [r EXCEPT ![k].ttl = @ + d, ![k].refreshed = TRUE], reply |-> TRUE]
    ELSE [redis |-> r, reply |-> FALSE]

\* RedisExpire with a fault: an absent key comes into being, empty.
RedisExpireCreate(r, k, d) ==
    IF k \in DOMAIN r
    THEN [redis |-> [r EXCEPT ![k].ttl = d, ![k].refreshed = TRUE], reply |-> TRUE]
    ELSE [redis |-> Put(r, k, Fresh("", d)), reply |-> TRUE]

\* EXPIRE key d: the key has d left to live; no effect on an absent key.
RedisExpire(r, k, d) ==
    IF k \in DOMAIN r
    THEN [redis |-> [r EXCEPT ![k].ttl = d, ![k].refreshed = TRUE], reply |-> TRUE]
    ELSE [redis |-> r, reply |-> FALSE]

\* RedisDel with a fault: reports a removed key also when there was none.
RedisDelAlways(r, k) == [redis |-> Remove(r, k), reply |-> 1]

\* RedisDel with a fault: reports the key removed and leaves it in place.
RedisDelKeep(r, k) == [redis |-> r, reply |-> IF k \in DOMAIN r THEN 1 ELSE 0]

\* DEL key: the number of keys removed.
RedisDel(r, k) ==
    IF k \in DOMAIN r THEN [redis |-> Remove(r, k), reply |-> 1]
    ELSE [redis |-> r, reply |-> 0]

\* Elapse with a fault: the time left runs down and nothing is dropped.
ElapseKeep(r) ==
    [x \in DOMAIN r |->
        [r[x] EXCEPT !.ttl = IF @ > 0 THEN @ - 1 ELSE 0,
                     !.orig = IF @ > 0 THEN @ - 1 ELSE 0]]

\* An hour passes on the server: every key has an hour less to live, and a key
\* with none left is dropped.
Elapse(r) ==
    [x \in {k \in DOMAIN r : r[k].ttl > 1} |->
        [r[x] EXCEPT !.ttl = @ - 1, !.orig = IF @ > 0 THEN @ - 1 ELSE 0]]

\* Set with a fault: an empty argument is reported as the client's error.
SetMerged(r, key, url, o) ==
    IF key = "" \/ url = "" \/ o = "unsent"
    THEN [redis |-> r, err |-> ErrRedis, sent |-> FALSE]
    ELSE LET c == RedisSetNX(r, key, url, ttl)
         IN  IF o = "lost" THEN [redis |-> c.redis, err |-> ErrRedis, sent |-> TRUE]
             ELSE IF ~c.reply THEN [redis |-> c.redis, err |-> ErrKeyExists, sent |-> TRUE]
             ELSE [redis |-> c.redis, err |-> Nil, sent |-> TRUE]

\* Set with a fault: the arguments are not checked.
SetUnchecked(r, key, url, o) ==
    IF o = "unsent" THEN [redis |-> r, err |-> ErrRedis, sent |-> FALSE]
    ELSE LET c == RedisSetNX(r, key, url, ttl)
         IN  IF o = "lost" THEN [redis |-> c.redis, err |-> ErrRedis, sent |-> TRUE]
             ELSE IF ~c.reply THEN [redis |-> c.redis, err |-> ErrKeyExists, sent |-> TRUE]
             ELSE [redis |-> c.redis, err |-> Nil, sent |-> TRUE]

\* RedisStore.Set, the command ending as `o`.
Set(r, key, url, o) ==
    IF key = "" THEN [redis |-> r, err |-> ErrEmptyKey, sent |-> FALSE]
    ELSE IF url = "" THEN [redis |-> r, err |-> ErrEmptyURL, sent |-> FALSE]
    ELSE IF o = "unsent" THEN [redis |-> r, err |-> ErrRedis, sent |-> FALSE]
    ELSE LET c == RedisSetNX(r, key, url, ttl)
         IN  IF o = "lost" THEN [redis |-> c.redis, err |-> ErrRedis, sent |-> TRUE]
             ELSE IF ~c.reply THEN [redis |-> c.redis, err |-> ErrKeyExists, sent |-> TRUE]
             ELSE [redis |-> c.redis, err |-> Nil, sent |-> TRUE]

\* GetFetch with a fault: the value of the reply is dropped.
GetFetchEmpty(r, key, o) ==
    IF o # "answered" THEN [url |-> "", err |-> ErrRedis]
    ELSE IF RedisGet(r, key).nil THEN [url |-> "", err |-> ErrNotFound]
    ELSE [url |-> "", err |-> Nil]

\* RedisStore.Get up to its first return: the GET command.
GetFetch(r, key, o) ==
    IF o # "answered" THEN [url |-> "", err |-> ErrRedis]
    ELSE LET c == RedisGet(r, key)
         IN  IF c.nil THEN [url |-> "", err |-> ErrNotFound]
             ELSE [url |-> c.val, err |-> Nil]

\* GetRefresh with a fault: the refresh takes effect though the command was
\* never sent.
GetRefreshAlways(r, key, o) == RedisExpire(r, key, ttl).redis

\* RedisStore.Get after a successful GET: the EXPIRE command, its error dropped.
GetRefresh(r, key, o) ==
    IF o = "unsent" THEN r ELSE RedisExpire(r, key, ttl).redis

\* RedisStore.Delete, the command ending as `o`.
Delete(r, key, o) ==
    IF o = "unsent" THEN [redis |-> r, err |-> ErrRedis]
    ELSE LET c == RedisDel(r, key)
         IN  IF o = "lost" THEN [redis |-> c.redis, err |-> ErrRedis]
             ELSE IF c.reply = 0 THEN [redis |-> c.redis, err |-> ErrNotFound]
             ELSE [redis |-> c.redis, err |-> Nil]

-----------------------------------------------------------------------------
(* Inputs *)

Digits == {"0", "1", "2", "3", "4", "5", "6", "7", "8", "9"}
Upper == {"A", "B", "C", "D", "E", "F", "G", "H", "I", "J", "K", "L", "M",
          "N", "O", "P", "Q", "R", "S", "T", "U", "V", "W", "X", "Y", "Z"}
Lower == {"a", "b", "c", "d", "e", "f", "g", "h", "i", "j", "k", "l", "m",
          "n", "o", "p", "q", "r", "s", "t", "u", "v", "w", "x", "y", "z"}

\* The random bytes a request's Generate can draw.
RandBufs == {<<0, 0, 0, 0, 0, 0>>, <<255, 255, 255, 255, 255, 255>>}
GenKeys == {Generate(b, FALSE).key : b \in RandBufs}

\* A key of the right format that no request creates, as the handlers' tests
\* ask for it.
NoSuchKeys == {"abcd1234"}

\* Keys of the wrong format, as a client can put them in a path.
BadKeys == {"abc123", "abc-1234"}

\* Keys and URLs the store's direct callers pass, the empty string among them.
StoreKeys == {"", "test1", "test2"}
StoreURLs == {"", "http://example.com", "http://another.com"}

\* The url field of a create request: absent or empty, relative, of another
\* scheme, and valid.
BodyURLs == {"", "example.com", "ftp://example.com",
             "https://example.com", "http://another.com"}

-----------------------------------------------------------------------------
(* State *)

NoReq == [kind |-> "none", key |-> "", url |-> ""]
NoCalls == [gen |-> 0, set |-> 0, get |-> 0, expire |-> 0, del |-> 0]

\* Nothing returned: the latest step was inside a call, or time passing.
NoOut == [p |-> 0, req |-> NoReq, calls |-> NoCalls,
          status |-> 0, error |-> "", short_key |-> "", url |-> "", location |-> "",
          err |-> "none", val |-> "", valid |-> FALSE]

\* The bookkeeping of a key's life.  Since the key was last absent: setOk, the
\* Set calls that returned nil, okURL, the url of the last of them, setExists,
\* some Set returned ErrKeyExists, setLost, the Set that inserted it did not
\* return nil.
\* Since the key was last inserted: delOk, the Delete calls that returned
\* nil, delNotFound, some Delete returned ErrNotFound, delLost, the Delete that
\* removed it did not return nil, lapsed, the key expired.  born: it was
\* inserted.
NoTally == [setOk |-> 0, okURL |-> "", setExists |-> FALSE, setLost |-> FALSE,
            delOk |-> 0, delNotFound |-> FALSE, delLost |-> FALSE,
            born |-> FALSE, lapsed |-> FALSE]

TallyOf(tl, k) == IF k \in DOMAIN tl THEN tl[k] ELSE NoTally

\* The store holds nothing, or one mapping that a Set has just stored.
Stores(keys) ==
    {<<>>} \cup {Put(<<>>, k, Fresh("http://example.com", ttl)) : k \in keys}

\* The state when the callers start, the store being one of `stores`.
InitWith(stores) ==
    /\ redis \in stores
    /\ tally = [k \in DOMAIN redis |->
                  [NoTally EXCEPT !.born = TRUE, !.setOk = 1, !.okURL = redis[k].url]]
    /\ pc = [p \in Procs |-> "idle"]
    /\ req = [p \in Procs |-> NoReq]
    /\ attempts = [p \in Procs |-> 0]
    /\ cand = [p \in Procs |-> ""]
    /\ fetched = [p \in Procs |-> ""]
    /\ calls = [p \in Procs |-> NoCalls]
    /\ out = NoOut
    /\ nReqs = 0

\* The server starts on a store that is empty or holds a mapping it made
\* before, under the key of the all-zero bytes.
Init == InitWith(Stores({Generate(<<0, 0, 0, 0, 0, 0>>, FALSE).key}))

\* A caller is free to start a call or a request.  Idle callers are
\* interchangeable: the lowest-numbered one takes the next call.
Free(p) ==
    /\ pc[p] = "idle"
    /\ nReqs < MaxReqs
    /\ \A q \in Procs : q < p => pc[q] # "idle"

\* A call or request starts.
Begin(p, r, at) ==
    /\ req' = [req EXCEPT ![p] = r]
    /\ pc' = [pc EXCEPT ![p] = at]
    /\ out' = NoOut
    /\ nReqs' = nReqs + 1
    /\ UNCHANGED <<attempts, cand, fetched, calls>>

\* A request r is answered within the step it arrived in, having made the
\* calls c: its caller was never seen busy.
Answer(p, r, c, o) ==
    /\ out' = [o EXCEPT !.p = p, !.req = r, !.calls = c]
    /\ nReqs' = nReqs + 1
    /\ UNCHANGED <<pc, req, attempts, cand, fetched, calls>>

\* A call returns, or a request is answered, having made the calls c: the
\* caller's locals are gone.
Return(p, c, o) ==
    /\ out' = [o EXCEPT !.p = p, !.req = req[p], !.calls = c]
    /\ pc' = [pc EXCEPT ![p] = "idle"]
    /\ req' = [req EXCEPT ![p] = NoReq]
    /\ attempts' = [attempts EXCEPT ![p] = 0]
    /\ cand' = [cand EXCEPT ![p] = ""]
    /\ fetched' = [fetched EXCEPT ![p] = ""]
    /\ calls' = [calls EXCEPT ![p] = NoCalls]

\* A Set call on k for the url u took the store from r to r2 and returned err.
TallySet(tl, k, u, r, r2, err) ==
    LET inserted == k \notin DOMAIN r /\ k \in DOMAIN r2
        t0 == IF inserted
              THEN [TallyOf(tl, k) EXCEPT !.delOk = 0, !.delNotFound = FALSE,
                                          !.delLost = FALSE, !.lapsed = FALSE,
                                          !.born = TRUE]
              ELSE TallyOf(tl, k)
        t1 == IF err = Nil THEN [t0 EXCEPT !.setOk = @ + 1, !.okURL = u]
              ELSE IF err = ErrKeyExists THEN [t0 EXCEPT !.setExists = TRUE]
              ELSE IF inserted THEN [t0 EXCEPT !.setLost = TRUE]
              ELSE t0
    IN  Put(tl, k, t1)

\* A Delete call on k took the store from r to r2 and returned err.
TallyDelete(tl, k, r, r2, err) ==
    LET removed == k \in DOMAIN r /\ k \notin DOMAIN r2
        t0 == IF removed
              THEN [TallyOf(tl, k) EXCEPT !.setOk = 0, !.okURL = "",
                                          !.setExists = FALSE, !.setLost = FALSE]
              ELSE TallyOf(tl, k)
        t1 == IF err = Nil THEN [t0 EXCEPT !.delOk = @ + 1]
              ELSE IF err = ErrNotFound THEN [t0 EXCEPT !.delNotFound = TRUE]
              ELSE IF removed THEN [t0 EXCEPT !.delLost = TRUE]
              ELSE t0
    IN  Put(tl, k, t1)

\* The keys of r that are gone from r2 have expired.
TallyExpiry(tl, r, r2) ==
    [k \in DOMAIN tl |->
        IF k \in DOMAIN r /\ k \notin DOMAIN r2
        THEN [tl[k] EXCEPT !.setOk = 0, !.okURL = "", !.setExists = FALSE,
                           !.setLost = FALSE, !.lapsed = TRUE]
        ELSE tl[k]]

\* Time passes: one hour, and the server expires what is due.
Tick ==
    /\ redis # <<>>
    /\ redis' = Elapse(redis)
    /\ tally' = TallyExpiry(tally, redis, redis')
    /\ out' = NoOut
    /\ UNCHANGED <<pc, req, attempts, cand, fetched, calls, nReqs>>

-----------------------------------------------------------------------------
(* Direct calls of the store, as its tests make them *)

CallSet(p) ==
    \E k \in StoreKeys, u \in StoreURLs :
        /\ Free(p)
        /\ Begin(p, [kind |-> "Set", key |-> k, url |-> u], "Set")
        /\ UNCHANGED <<redis, tally>>

SetReturn(p) ==
    \E o \in Outcomes :
        LET s == Set(redis, req[p].key, req[p].url, o)
        IN  /\ pc[p] = "Set"
            /\ redis' = s.redis
            /\ tally' = TallySet(tally, req[p].key, req[p].url, redis, s.redis, s.err)
            /\ Return(p, NoCalls, [NoOut EXCEPT !.err = s.err])
            /\ UNCHANGED nReqs

CallGet(p) ==
    \E k \in StoreKeys :
        /\ Free(p)
        /\ Begin(p, [kind |-> "Get", key |-> k, url |-> ""], "Get")
        /\ UNCHANGED <<redis, tally>>

\* Get's GET command: redis.Nil and errors return at once.
GetFetchStep(p) ==
    \E o \in {"answered", "unsent"} :
        LET g == GetFetch(redis, req[p].key, o)
        IN  /\ pc[p] = "Get"
            /\ IF g.err # Nil
               THEN Return(p, NoCalls, [NoOut EXCEPT !.err = g.err])
               ELSE /\ fetched' = [fetched EXCEPT ![p] = g.url]
                    /\ pc' = [pc EXCEPT ![p] = "GetRefresh"]
                    /\ out' = NoOut
                    /\ UNCHANGED <<req, attempts, cand, calls>>
            /\ UNCHANGED <<redis, tally, nReqs>>

\* Get's EXPIRE command and its return of the url fetched.
GetRefreshStep(p) ==
    \E o \in Outcomes :
        /\ pc[p] = "GetRefresh"
        /\ redis' = GetRefresh(redis, req[p].key, o)
        /\ Return(p, NoCalls, [NoOut EXCEPT !.err = Nil, !.val = fetched[p]])
        /\ UNCHANGED <<tally, nReqs>>

CallDelete(p) ==
    \E k \in StoreKeys :
        /\ Free(p)
        /\ Begin(p, [kind |-> "Delete", key |-> k, url |-> ""], "Delete")
        /\ UNCHANGED <<redis, tally>>

DeleteReturn(p) ==
    \E o \in Outcomes :
        LET d == Delete(redis, req[p].key, o)
        IN  /\ pc[p] = "Delete"
            /\ redis' = d.redis
            /\ tally' = TallyDelete(tally, req[p].key, redis, d.redis, d.err)
            /\ Return(p, NoCalls, [NoOut EXCEPT !.err = d.err])
            /\ UNCHANGED nReqs

StoreNext ==
    \/ \E p \in Procs : CallSet(p)
    \/ \E p \in Procs : SetReturn(p)
    \/ \E p \in Procs : CallGet(p)
    \/ \E p \in Procs : GetFetchStep(p)
    \/ \E p \in Procs : GetRefreshStep(p)
    \/ \E p \in Procs : CallDelete(p)
    \/ \E p \in Procs : DeleteReturn(p)
    \/ Tick

\* The store's direct callers start on a store that is empty or holds a
\* mapping of theirs.
StoreInit == InitWith(Stores({"test1"}))

StoreSpec == StoreInit /\ [][StoreNext]_vars

-----------------------------------------------------------------------------
(* Direct calls of the generator, as its tests make them *)

\* The bytes rand.Read can deliver, sampled: four places free, two alike.
GenBytes == {0, 62, 255}
\* The readings around the places where the key space wraps: 62^8 - 1 and
\* 62^8, and 2^48 - 1 - 62^8 and 2^48 - 62^8.
WrapBufs == {<<198, 148, 68, 111, 0, 255>>, <<198, 148, 68, 111, 1, 0>>,
             <<57, 107, 187, 144, 254, 255>>, <<57, 107, 187, 144, 255, 0>>}
GenBufs == {<<a, b, c, d, e, e>> : a \in GenBytes, b \in GenBytes, c \in GenBytes,
                                  d \in GenBytes, e \in {0, 255}} \cup WrapBufs

\* The key Generate makes of each of them.
KeyOf == [b \in GenBufs |-> Generate(b, FALSE)]

\* The strings ValidateKey is asked about.
Candidates == {"", "a", "abc123", "abcdefg", "aB1cD2eF", "00000000", "zzzzzzzz",
               "ZZZZZZZZ", "abcdefghi", "abc123def456", "abc!@#$%^", "abc-1234",
               "abc_1234", "abc.1234", "abc 1234", "abc!1234", "abcd123/",
               "abcd123:", "abcd123@", "abcd123[", "abcd123{"}

\* g.Generate() is called and returns.
CallGenerate(p) ==
    \E buf \in GenBufs, readErr \in BOOLEAN :
        LET g == IF readErr THEN Generate(buf, TRUE) ELSE KeyOf[buf]
        IN  /\ Free(p)
            /\ Answer(p, [kind |-> "Generate", key |-> "", url |-> ""],
                      [NoCalls EXCEPT !.gen = 1],
                      [NoOut EXCEPT !.val = g.key, !.err = g.err])
            /\ UNCHANGED <<redis, tally>>

\* g.ValidateKey(key) is called and returns.
CallValidateKey(p) ==
    \E key \in Candidates \cup GenKeys :
        /\ Free(p)
        /\ Answer(p, [kind |-> "ValidateKey", key |-> key, url |-> ""], NoCalls,
                  [NoOut EXCEPT !.valid = ValidateKey(key)])
        /\ UNCHANGED <<redis, tally>>

GenNext ==
    \/ \E p \in Procs : CallGenerate(p)
    \/ \E p \in Procs : CallValidateKey(p)

GenSpec == Init /\ [][GenNext]_vars

-----------------------------------------------------------------------------
(* internal/http: the handlers *)

MaxAttempts == 3

\* LoopAgain with a fault: one pass too many.
LoopAgainInclusive(n) == n <= MaxAttempts

\* The loop's condition, `attempts < 3`.
LoopAgain(n) == n < MaxAttempts

\* Retryable with a fault: every error of the store is retried.
RetryableAny(err) == err # Nil

\* The loop's `err != storage.ErrKeyExists` lets only a collision go on.
Retryable(err) == err = ErrKeyExists

ReqKeys == GenKeys \cup BadKeys

\* The keys of resolve requests: those, and the key that is never created.
ResolveKeys == ReqKeys \cup NoSuchKeys

UpperStr == "ABCDEFGHIJKLMNOPQRSTUVWXYZ"
LowerStr == "abcdefghijklmnopqrstuvwxyz"

\* url.Parse's getScheme: the scheme is the letters, digits and "+-." before
\* the first ":", when they start with a letter.
RECURSIVE getScheme(_, _)
getScheme(rawURL, i) ==
    IF i > Len(rawURL) THEN [scheme |-> "", err |-> FALSE]
    ELSE LET c == CharAt(rawURL, i)
         IN  IF c \in Upper \cup Lower THEN getScheme(rawURL, i + 1)
             ELSE IF c \in Digits \cup {"+", "-", "."}
                  THEN IF i = 1 THEN [scheme |-> "", err |-> FALSE]
                       ELSE getScheme(rawURL, i + 1)
             ELSE IF c = ":"
                  THEN IF i = 1 THEN [scheme |-> "", err |-> TRUE]
                       ELSE [scheme |-> SubSeq(rawURL, 1, i - 1), err |-> FALSE]
             ELSE [scheme |-> "", err |-> FALSE]

\* strings.ToLower, as url.Parse applies it to the scheme.
RECURSIVE ToLower(_)
ToLower(str) ==
    IF str = "" THEN ""
    ELSE LET c == Head(str)
             l == IF \E i \in 1..Len(UpperStr) : CharAt(UpperStr, i) = c
                  THEN CharAt(LowerStr, CHOOSE i \in 1..Len(UpperStr) : CharAt(UpperStr, i) = c)
                  ELSE c
         IN  l \o ToLower(Tail(str))

\* ValidURL with a fault: any scheme will do.
ValidURLAnyScheme(rawURL) ==
    LET parsed == getScheme(rawURL, 1)
    IN  ~(parsed.err \/ parsed.scheme = "")

\* CreateURL's check of the url: it parses, is absolute, and is http or https.
ValidURL(rawURL) ==
    LET parsed == getScheme(rawURL, 1)
        scheme == ToLower(parsed.scheme)
    IN  ~(parsed.err \/ (scheme = "" \/ (scheme # "http" /\ scheme # "https")))

\* What the handlers compute from their inputs, per input.
\* What h.generator.Generate() can return: a key, or rand.Read's error.
Generated == {KeyOf[b] : b \in RandBufs} \cup {Generate(b, TRUE) : b \in RandBufs}
KeyOK == [k \in ResolveKeys |-> ValidateKey(k)]
URLOK == [u \in BodyURLs |-> ValidURL(u)]

JSONError(status, msg) == [NoOut EXCEPT !.status = status, !.error = msg]

\* CreateURL up to its first command to the store: the body is bound, the url
\* checked, and the loop's first key generated.
CreateURLStart(p) ==
    \E u \in BodyURLs :
        LET r == [kind |-> "CreateURL", key |-> "", url |-> u]
            c == [NoCalls EXCEPT !.gen = 1]
        IN  /\ Free(p)
            /\ IF u = ""
               THEN Answer(p, r, NoCalls, JSONError(400, "Invalid request body"))
               ELSE IF ~URLOK[u]
               THEN Answer(p, r, NoCalls, JSONError(400,
                        "Invalid URL. Must be absolute with http(s) scheme"))
               ELSE \E g \in Generated :
                        IF g.err # Nil
                        THEN Answer(p, r, c, JSONError(500, "Failed to generate key"))
                        ELSE /\ req' = [req EXCEPT ![p] = r]
                             /\ cand' = [cand EXCEPT ![p] = g.key]
                             /\ calls' = [calls EXCEPT ![p] = c]
                             /\ pc' = [pc EXCEPT ![p] = "set"]
                             /\ out' = NoOut
                             /\ nReqs' = nReqs + 1
                             /\ UNCHANGED <<attempts, fetched>>
            /\ UNCHANGED <<redis, tally>>

\* One h.store.Set of the loop and what the loop does with its error: the
\* response, or attempts++ and the next pass's h.generator.Generate().
CreateURLSet(p) ==
    \E o \in Outcomes :
        LET s == Set(redis, cand[p], req[p].url, o)
            c == [calls[p] EXCEPT !.set = @ + 1]
            cg == [c EXCEPT !.gen = @ + 1]
        IN  /\ pc[p] = "set"
            /\ redis' = s.redis
            /\ tally' = TallySet(tally, cand[p], req[p].url, redis, s.redis, s.err)
            /\ IF s.err = Nil
               THEN Return(p, c, [NoOut EXCEPT !.status = 201, !.short_key = cand[p],
                                               !.url = req[p].url])
               ELSE IF ~Retryable(s.err)
               THEN Return(p, c, JSONError(500, "Failed to store URL"))
               ELSE IF ~LoopAgain(attempts[p] + 1)
               THEN Return(p, c, JSONError(500,
                        "Failed to generate unique key after multiple attempts"))
               ELSE \E g \in Generated :
                        IF g.err # Nil
                        THEN Return(p, cg, JSONError(500, "Failed to generate key"))
                        ELSE /\ attempts' = [attempts EXCEPT ![p] = @ + 1]
                             /\ cand' = [cand EXCEPT ![p] = g.key]
                             /\ calls' = [calls EXCEPT ![p] = cg]
                             /\ out' = NoOut
                             /\ UNCHANGED <<pc, req, fetched>>
            /\ UNCHANGED nReqs

\* RedirectURL up to the store's second command: the key's format is checked
\* and h.store.Get sends GET; not found and errors are answered at once.
RedirectURLGet(p) ==
    \E k \in ResolveKeys, o \in {"answered", "unsent"} :
        LET r == [kind |-> "RedirectURL", key |-> k, url |-> ""]
            g == GetFetch(redis, k, o)
            c == [NoCalls EXCEPT !.get = 1]
        IN  /\ Free(p)
            /\ IF ~KeyOK[k]
               THEN Answer(p, r, NoCalls, JSONError(404, "Invalid URL key format"))
               ELSE IF g.err = ErrNotFound
               THEN Answer(p, r, c, JSONError(404, "URL not found"))
               ELSE IF g.err # Nil
               THEN Answer(p, r, c, JSONError(500, "Failed to retrieve URL"))
               ELSE /\ req' = [req EXCEPT ![p] = r]
                    /\ fetched' = [fetched EXCEPT ![p] = g.url]
                    /\ calls' = [calls EXCEPT ![p] = c]
                    /\ pc' = [pc EXCEPT ![p] = "refresh"]
                    /\ out' = NoOut
                    /\ nReqs' = nReqs + 1
                    /\ UNCHANGED <<attempts, cand>>
            /\ UNCHANGED <<redis, tally>>

\* The rest of h.store.Get, the EXPIRE command, and the redirect.
RedirectURLRefresh(p) ==
    \E o \in Outcomes :
        /\ pc[p] = "refresh"
        /\ redis' = GetRefresh(redis, req[p].key, o)
        /\ Return(p, [calls[p] EXCEPT !.expire = @ + 1],
                  [NoOut EXCEPT !.status = 302, !.location = fetched[p]])
        /\ UNCHANGED <<tally, nReqs>>

\* DeleteURL up to the store: the key's format is checked.
DeleteURLStart(p) ==
    \E k \in ReqKeys :
        LET r == [kind |-> "DeleteURL", key |-> k, url |-> ""]
        IN  /\ Free(p)
            /\ IF ~KeyOK[k]
               THEN Answer(p, r, NoCalls, JSONError(400, "Invalid URL key format"))
               ELSE Begin(p, r, "del")
            /\ UNCHANGED <<redis, tally>>

\* h.store.Delete sends DEL, and the response follows from its error.
DeleteURLDel(p) ==
    \E o \in Outcomes :
        LET d == Delete(redis, req[p].key, o)
            c == [calls[p] EXCEPT !.del = @ + 1]
        IN  /\ pc[p] = "del"
            /\ redis' = d.redis
            /\ tally' = TallyDelete(tally, req[p].key, redis, d.redis, d.err)
            /\ IF d.err = ErrNotFound
               THEN Return(p, c, [NoOut EXCEPT !.status = 204])
               ELSE IF d.err # Nil
               THEN Return(p, c, JSONError(500, "Failed to delete URL"))
               ELSE Return(p, c, [NoOut EXCEPT !.status = 200])
            /\ UNCHANGED nReqs

Next ==
    \/ \E p \in Procs : CreateURLStart(p)
    \/ \E p \in Procs : CreateURLSet(p)
    \/ \E p \in Procs : RedirectURLGet(p)
    \/ \E p \in Procs : RedirectURLRefresh(p)
    \/ \E p \in Procs : DeleteURLStart(p)
    \/ \E p \in Procs : DeleteURLDel(p)
    \/ Tick

Spec == Init /\ [][Next]_vars

\* The create requests alone, racing one another on a store that holds
\* nothing or one mapping; no mapping expires while they run.
CreateNext ==
    \/ \E p \in Procs : CreateURLStart(p)
    \/ \E p \in Procs : CreateURLSet(p)

\* A handler runs on: a request that is in its loop makes its next call of
\* the store, which returns.
LiveSpec ==
    /\ Init /\ [][CreateNext]_vars
    /\ \A p \in Procs : WF_vars(CreateURLSet(p))

\* All the handlers, each running on to its answer once it has started: its
\* call of the store returns.
FairSpec ==
    /\ Init /\ [][Next]_vars
    /\ \A p \in Procs :
          /\ WF_vars(CreateURLSet(p))
          /\ WF_vars(RedirectURLRefresh(p))
          /\ WF_vars(DeleteURLDel(p))
-----------------------------------------------------------------------------
(* Properties of the generator *)

Alphabet == Digits \cup Upper \cup Lower

WellFormed(s) == Len(s) = KeyLength /\ \A i \in 1..Len(s) : CharAt(s, i) \in Alphabet

\* C6: every key Generate returns has exactly 8 characters, each of 0-9, A-Z,
\* a-z, and ValidateKey accepts it.
C6_GenerateYieldsValidKey ==
    (out.req.kind = "Generate" /\ out.err = Nil)
        => (WellFormed(out.val) /\ ValidateKey(out.val))

\* Generate has returned a key whose number ran out before the eighth
\* character: the all-zero bytes, padded with the alphabet's first character.
C6_Witness ==
    out.req.kind = "Generate" /\ out.err = Nil /\ out.val = "00000000"

\* C7: ValidateKey returns true exactly for the strings of 8 characters that
\* are all of 0-9, A-Z, a-z; it has no other outcome.
C7_ValidateKeyIffWellFormed ==
    out.req.kind = "ValidateKey"
        => (out.valid = WellFormed(out.req.key) /\ out.err = "none")

\* ValidateKey has refused a string of the right length for one character.
C7_Witness ==
    out.req.kind = "ValidateKey" /\ out.req.key = "abc-1234" /\ ~out.valid

\* The value of a character as a base-62 digit: its place in the alphabet
\* 0-9, A-Z, a-z, counted from 0.
DigitOf(c) == (CHOOSE j \in 1..Len(Base62Chars) : CharAt(Base62Chars, j) = c) - 1

\* x * m + a, x being 8 big-endian bytes, by schoolbook multiplication.
RECURSIVE MulAdd(_, _, _, _)
MulAdd(x, i, m, a) ==
    IF i = 0 THEN x
    ELSE LET cur == x[i] * m + a
         IN  MulAdd([x EXCEPT ![i] = cur % 256], i - 1, m, cur \div 256)

\* x + y, both 8 big-endian bytes.
RECURSIVE AddBytes(_, _, _, _)
AddBytes(x, y, i, carry) ==
    IF i = 0 THEN x
    ELSE LET cur == x[i] + y[i] + carry
         IN  AddBytes([x EXCEPT ![i] = cur % 256], y, i - 1, cur \div 256)

\* The number whose base-62 digits, least significant first, are the
\* characters i..8 of key, times 62^(i-1) taken out: Horner's rule.
RECURSIVE ValueFrom(_, _)
ValueFrom(key, i) ==
    IF i > Len(key) THEN <<0, 0, 0, 0, 0, 0, 0, 0>>
    ELSE MulAdd(ValueFrom(key, i + 1), 8, Radix, DigitOf(CharAt(key, i)))

\* 62^8 = 218340105584896, as 8 big-endian bytes.
RadixToKeyLength == <<0, 0, 198, 148, 68, 111, 1, 0>>

\* The key of buf is num's 8 lowest base-62 digits, least significant first:
\* read back that way it gives num, or num - 62^8 when num is 62^8 or more.
DigitsOf == [b \in GenBufs |->
    LET key == KeyOf[b].key
        v == IF Len(key) = KeyLength THEN ValueFrom(key, 1) ELSE <<>>
    IN  /\ Len(key) = KeyLength
        /\ \/ v = Uint64Bytes(b)
           \/ AddBytes(v, RadixToKeyLength, 8, 0) = Uint64Bytes(b)]

\* C32: Generate reads the 6 bytes as one unsigned number and writes its
\* base-62 digits, the least significant first, as characters of the
\* alphabet: always 8 of them, zeros included.
C32_KeyIsLowDigitsFirst ==
    (out.req.kind = "Generate" /\ out.err = Nil)
        => /\ Len(out.val) = KeyLength
           /\ \E b \in GenBufs : KeyOf[b].key = out.val
           /\ \A b \in GenBufs : KeyOf[b].key = out.val => DigitsOf[b]

\* Generate has returned the key of the bytes 00 00 00 3E 00 00, the number
\* 62 * 65536: four digits and then four zeros.
C32_Witness ==
    /\ out.req.kind = "Generate" /\ out.err = Nil
    /\ out.val = "023H0000"
    /\ KeyOf[<<0, 0, 0, 62, 0, 0>>].key = out.val

\* x < y, both 8 big-endian bytes.
RECURSIVE LessFrom(_, _, _)
LessFrom(x, y, i) ==
    IF i > Len(x) THEN FALSE
    ELSE IF x[i] # y[i] THEN x[i] < y[i]
    ELSE LessFrom(x, y, i + 1)
Less(x, y) == LessFrom(x, y, 1)

\* 62^n as 8 big-endian bytes.
RECURSIVE RadixTo(_)
RadixTo(n) ==
    IF n = 0 THEN <<0, 0, 0, 0, 0, 0, 0, 1>>
    ELSE MulAdd(RadixTo(n - 1), 8, Radix, 0)

\* 2^48, one more than the largest value of 6 bytes.
TwoTo48 == <<0, 1, 0, 0, 0, 0, 0, 0>>

\* The 6 bytes that read as v, v being below 2^48.
Low6(v) == SubSeq(v, 3, 8)

\* What is known of a key that Generate returned: the value v its characters
\* spell is below 62^8 and Generate makes the key of v; it makes the same key
\* of v + 62^8 when that is below 2^48; and a reading that gives the key is
\* one of these two.
CoveredOnceOrTwice(key) ==
    LET v == ValueFrom(key, 1)
        w == AddBytes(v, RadixToKeyLength, 8, 0)
    IN  /\ Less(v, RadixToKeyLength)
        /\ Uint64Bytes(Low6(v)) = v
        /\ Generate(Low6(v), FALSE).key = key
        /\ Less(w, TwoTo48)
              => /\ Uint64Bytes(Low6(w)) = w
                 /\ Generate(Low6(w), FALSE).key = key
        /\ \A b \in GenBufs :
              KeyOf[b].key = key => Uint64Bytes(b) \in {v, w}

KeysCovered == [b \in GenBufs |-> CoveredOnceOrTwice(KeyOf[b].key)]

\* C38: 62^8 <= 2^48 < 2 * 62^8, and the key depends on the 48-bit value
\* modulo 62^8 only: every key Generate returns is the key of exactly the
\* values v and v + 62^8 that are below 2^48, v being the number below 62^8
\* that the key spells, so of one value or of two; and every number below
\* 62^8 is such a value, so every key is made.
C38_KeySpaceCoveredOnceOrTwice ==
    /\ RadixTo(KeyLength) = RadixToKeyLength
    /\ ~Less(TwoTo48, RadixToKeyLength)
    /\ Less(TwoTo48, AddBytes(RadixToKeyLength, RadixToKeyLength, 8, 0))
    /\ \A b \in WrapBufs : Less(Uint64Bytes(b), TwoTo48)
    /\ KeyOf[<<198, 148, 68, 111, 0, 255>>].key = "zzzzzzzz"
    /\ KeyOf[<<57, 107, 187, 144, 255, 0>>].key
         \notin {KeyOf[b].key : b \in GenBufs \ {<<57, 107, 187, 144, 255, 0>>}}
    /\ (out.req.kind = "Generate" /\ out.err = Nil)
          => /\ Len(out.val) = KeyLength
             /\ \E b \in GenBufs : KeyOf[b].key = out.val /\ KeysCovered[b]

\* Generate has returned 00000000, the key of the value 0 and of the value
\* 62^8, and of no other of the values read.
C38_Witness ==
    /\ out.req.kind = "Generate" /\ out.err = Nil
    /\ out.val = "00000000"
    /\ {b \in GenBufs : KeyOf[b].key = out.val}
          = {<<0, 0, 0, 0, 0, 0>>, <<198, 148, 68, 111, 1, 0>>}

-----------------------------------------------------------------------------
(* Properties of the store *)

\* Caller p's call of `kind` returns in this step.
Returns(p, kind) == pc[p] = kind /\ pc'[p] = "idle"

\* C1: of the Set calls that race for a key that was absent, exactly one
\* returns nil and every other returns ErrKeyExists, and the url stored is
\* that of the call that returned nil - unless the reply to the call that
\* inserted the key was lost on its way back.
C1_OneSetWins ==
    \A k \in DOMAIN tally :
        LET t == tally[k]
        IN  /\ t.setOk <= 1
            /\ t.setOk = 1 => (k \in DOMAIN redis /\ redis[k].url = t.okURL)
            /\ (t.setExists /\ ~t.setLost) => t.setOk = 1
            /\ (k \in DOMAIN redis /\ ~t.setLost) => t.setOk = 1

\* Of two calls in all, the one of caller 2 has returned ErrKeyExists for its
\* own url: it was made while caller 1's call, which won, was in flight.
C1_Witness ==
    /\ nReqs = 2
    /\ out.p = 2 /\ out.req.kind = "Set" /\ out.err = ErrKeyExists
    /\ out.req.url = "http://example.com"
    /\ out.req.key \in DOMAIN redis
    /\ redis[out.req.key].url = "http://another.com"
    /\ tally[out.req.key].setOk = 1 /\ ~tally[out.req.key].setLost

\* C2: a Set on a key that is present inserts nothing: it does not return nil
\* - it returns ErrKeyExists, or the error of a command that failed or of an
\* empty url - and the store, the url under the key included, is as before.
C2_SetOnlyIfAbsent ==
    [][\A p \in Procs :
          (Returns(p, "Set") /\ req[p].key \in DOMAIN redis)
              => /\ out'.err \in {ErrKeyExists, ErrRedis, ErrEmptyURL}
                 /\ redis' = redis]_vars

\* A Set of another url on a present key has returned ErrKeyExists, and the
\* url stored first is still there.
C2_Witness ==
    /\ out.req.kind = "Set" /\ out.err = ErrKeyExists
    /\ out.req.key \in DOMAIN redis
    /\ redis[out.req.key].url = "http://example.com"
    /\ out.req.url = "http://another.com"

\* C9 as stated: every Get that returns a url leaves the key with
\* the full default time to live.
C9_EveryGetRefreshes ==
    [][\A p \in Procs :
          Returns(p, "GetRefresh")
              => /\ req[p].key \in DOMAIN redis'
                 /\ redis'[req[p].key].ttl = DefaultTTL]_vars

\* C9, amended: a Get that has fetched a url returns it, and its refresh is
\* best effort: where the EXPIRE reaches the store and the key is still there
\* the key has the full default time to live, whatever it had left; otherwise
\* the store is as it was.  No key ever has more than the default left, and
\* only a refreshed key outlives the expiry point set at its creation.
C9_GetRefreshesBestEffort ==
    /\ [][\A p \in Procs :
            Returns(p, "GetRefresh")
                => /\ out'.err = Nil /\ out'.val = fetched[p]
                   /\ \/ redis' = redis
                      \/ /\ req[p].key \in DOMAIN redis
                         /\ redis' = [redis EXCEPT ![req[p].key].ttl = DefaultTTL,
                                                   ![req[p].key].refreshed = TRUE]]_vars
    /\ [](\A k \in DOMAIN redis :
            /\ redis[k].ttl \in 1..DefaultTTL
            /\ redis[k].ttl > redis[k].orig => redis[k].refreshed)

\* A Get has returned the url of a key whose original expiry point has
\* passed, and the key has the full time to live again.
C9_Witness ==
    /\ out.req.kind = "Get" /\ out.err = Nil /\ out.val # ""
    /\ out.req.key \in DOMAIN redis
    /\ redis[out.req.key].orig = 0
    /\ redis[out.req.key].ttl = DefaultTTL

\* C10: a key that no Get has refreshed is gone when the time to live given
\* at its creation has run out, and a Get of a key that is gone returns
\* ErrNotFound (or the error of a failed command), never a url.
C10_ExpiredIsNotFound ==
    /\ [](\A k \in DOMAIN redis :
            /\ redis[k].ttl >= 1
            /\ ~redis[k].refreshed => (redis[k].ttl = redis[k].orig))
    /\ [][\A p \in Procs :
            (pc[p] = "Get" /\ pc'[p] # "Get" /\ req[p].key \notin DOMAIN redis)
                => /\ pc'[p] = "idle"
                   /\ out'.err \in {ErrNotFound, ErrRedis}
                   /\ out'.val = ""]_vars

\* A Get of a key that has expired has returned ErrNotFound.
C10_Witness ==
    /\ out.req.kind = "Get" /\ out.err = ErrNotFound
    /\ out.req.key \in DOMAIN tally
    /\ tally[out.req.key].lapsed
    /\ out.req.key \notin DOMAIN redis

\* C11: a Set that inserts a mapping gives it the default time to live in the
\* same step, so every mapping in the store has more than 0 and at most
\* DefaultTTL left; none is without a time to live.
C11_EveryMappingHasTTL ==
    /\ [](\A k \in DOMAIN redis : redis[k].ttl > 0 /\ redis[k].ttl <= DefaultTTL)
    /\ [][\A k \in DOMAIN redis' :
            k \notin DOMAIN redis => redis'[k].ttl = DefaultTTL]_vars

\* A Set has returned nil for a key that was not in the store at the start,
\* and the key has the default time to live.
C11_Witness ==
    /\ out.req.kind = "Set" /\ out.err = Nil /\ out.req.key = "test2"
    /\ "test2" \in DOMAIN redis
    /\ redis["test2"].ttl = DefaultTTL

\* C12 as stated: a mapping for k is in the store exactly when some Set of k
\* has returned nil with no Delete of k that returned nil and no expiry of k
\* since, and the url stored is that Set's and not empty.
C12_PresentIffCreated ==
    \A k \in StoreKeys :
        /\ k \in DOMAIN redis <=> TallyOf(tally, k).setOk >= 1
        /\ k \in DOMAIN redis
              => (redis[k].url = TallyOf(tally, k).okURL /\ redis[k].url # "")

\* C13: once a Delete of k has returned nil, and until a Set puts k back, k
\* is not in the store: a Get of k returns ErrNotFound and so does another
\* Delete of k.
C13_DeletedStaysAbsent ==
    /\ \A k \in DOMAIN tally :
          tally[k].delOk >= 1
              => /\ k \notin DOMAIN redis
                 /\ GetFetch(redis, k, "answered").err = ErrNotFound
                 /\ Delete(redis, k, "answered").err = ErrNotFound
    /\ (out.req.kind = "Delete" /\ out.err = Nil) => out.req.key \notin DOMAIN redis

\* A second Delete of a key has returned ErrNotFound after the first
\* returned nil.
C13_Witness ==
    /\ out.req.kind = "Delete" /\ out.err = ErrNotFound
    /\ out.req.key \in DOMAIN tally
    /\ tally[out.req.key].delOk = 1

\* C15: Set calls on different keys that run at the same time do not
\* interfere: a Set changes no other key's mapping, a Set of an absent key
\* that the store answers returns nil whatever other keys are being stored,
\* and the Get of every key stored this way gives that key's url.
C15_DistinctKeysDoNotInterfere ==
    /\ [][\A p \in Procs :
            Returns(p, "Set")
                => /\ \A k \in (DOMAIN redis \cup DOMAIN redis') \ {req[p].key} :
                         /\ k \in DOMAIN redis /\ k \in DOMAIN redis'
                         /\ redis'[k] = redis[k]
                   /\ (req[p].key \notin DOMAIN redis
                         /\ out'.err \notin {ErrRedis, ErrEmptyKey, ErrEmptyURL})
                         => /\ out'.err = Nil
                            /\ req[p].key \in DOMAIN redis'
                            /\ redis'[req[p].key].url = req[p].url]_vars
    /\ [](\A k \in DOMAIN tally :
            tally[k].setOk >= 1
                => GetFetch(redis, k, "answered") = [url |-> tally[k].okURL, err |-> Nil])

\* Two Set calls on test1 and test2 overlapped and both returned nil.
C15_Witness ==
    /\ nReqs = 2 /\ out.p = 2
    /\ out.req.kind = "Set" /\ out.err = Nil
    /\ {"test1", "test2"} \subseteq DOMAIN redis
    /\ redis["test1"].url = "http://another.com"
    /\ tally["test1"].setOk = 1 /\ tally["test2"].setOk = 1

\* C17: a Set with an empty key or an empty url returns an error without
\* sending a command to the store, and the store is unchanged.
C17_EmptyArgumentsSendNothing ==
    [][\A p \in Procs :
        (Returns(p, "Set") /\ (req[p].key = "" \/ req[p].url = ""))
            => /\ out'.err = (IF req[p].key = "" THEN ErrEmptyKey ELSE ErrEmptyURL)
               /\ redis' = redis
               /\ \A o \in Outcomes : ~Set(redis, req[p].key, req[p].url, o).sent]_vars

\* A Set with an empty key has returned its error on a store that holds a
\* mapping.
C17_Witness ==
    /\ out.req.kind = "Set" /\ out.req.key = "" /\ out.req.url # ""
    /\ out.err = ErrEmptyKey
    /\ redis # <<>>

\* C18: a Get and a Delete of a key that is not in the store both return
\* ErrNotFound when the store answers, leave the store as it was, and create
\* no mapping.
C18_AbsentKeyIsNotFound ==
    /\ [](\A k \in StoreKeys \ DOMAIN redis :
            /\ GetFetch(redis, k, "answered").err = ErrNotFound
            /\ Delete(redis, k, "answered") = [redis |-> redis, err |-> ErrNotFound])
    /\ [][\A p \in Procs :
            /\ (pc[p] = "Get" /\ pc'[p] # "Get" /\ req[p].key \notin DOMAIN redis)
                  => /\ pc'[p] = "idle"
                     /\ out'.err \in {ErrNotFound, ErrRedis}
                     /\ redis' = redis
            /\ (Returns(p, "Delete") /\ req[p].key \notin DOMAIN redis)
                  => /\ out'.err \in {ErrNotFound, ErrRedis}
                     /\ redis' = redis]_vars

\* A key that was never stored: its Delete returned ErrNotFound and then its
\* Get did, the store holding another mapping all along.
C18_Witness ==
    /\ out.req.kind = "Get" /\ out.err = ErrNotFound
    /\ out.req.key = "test2"
    /\ ~TallyOf(tally, "test2").born /\ TallyOf(tally, "test2").delNotFound
    /\ "test1" \in DOMAIN redis

\* C22 as stated: when the EXPIRE of a Get fails, because it was not sent or
\* because its reply was lost, the Get still returns the url with no error
\* and the mapping has the time to live it had before.
C22_FailedRefreshKeepsTTL ==
    /\ [][\A p \in Procs :
            Returns(p, "GetRefresh") => (out'.err = Nil /\ out'.val = fetched[p])]_vars
    /\ [](\A p \in Procs :
            (pc[p] = "GetRefresh" /\ req[p].key \in DOMAIN redis)
                => \A o \in {"unsent", "lost"} :
                      GetRefresh(redis, req[p].key, o)[req[p].key].ttl
                          = redis[req[p].key].ttl)

\* C22, amended: when the EXPIRE of a Get fails the Get still returns the url
\* it fetched with no error.  If the command was not sent the store is as it
\* was; if it was executed and only its reply was lost, the mapping has the
\* default time to live, as after a refresh that succeeded.  No other key and
\* no url changes.
C22_FailedRefreshStillReturns ==
    /\ [][\A p \in Procs :
            Returns(p, "GetRefresh")
                => /\ out'.err = Nil /\ out'.val = fetched[p]
                   /\ DOMAIN redis' = DOMAIN redis
                   /\ \A k \in DOMAIN redis :
                         /\ redis'[k].url = redis[k].url
                         /\ k # req[p].key => redis'[k] = redis[k]
                         /\ redis'[k].ttl \in {redis[k].ttl, DefaultTTL}]_vars
    /\ [](\A p \in Procs :
            pc[p] = "GetRefresh"
                => /\ GetRefresh(redis, req[p].key, "unsent") = redis
                   /\ GetRefresh(redis, req[p].key, "lost")
                         = GetRefresh(redis, req[p].key, "answered")
                   /\ req[p].key \in DOMAIN redis
                         => GetRefresh(redis, req[p].key, "lost")[req[p].key].ttl
                               = DefaultTTL)

\* A Get has returned the url of a mapping that an hour has passed over and
\* that no refresh has reached: it has less than the default left.
C22_Witness ==
    /\ out.req.kind = "Get" /\ out.err = Nil /\ out.val = "http://example.com"
    /\ out.req.key \in DOMAIN redis
    /\ redis[out.req.key].ttl < DefaultTTL
    /\ ~redis[out.req.key].refreshed

C25_CancelledHasNoEffect ==
    [][\A p \in Procs :
        ((Returns(p, "Set") \/ Returns(p, "Delete")) /\ out'.err = ErrRedis)
            => redis' = redis]_vars

\* Every call leaves the keys other than its own as they were, url and time to
\* live, and a Set that returns ErrKeyExists leaves its own key as it was too:
\* the time the mapping has left is not extended.
C34_CollisionAndOtherKeysUntouched ==
    [][\A p \in Procs :
        /\ pc'[p] # pc[p] =>
              \A j \in StoreKeys \ {req[p].key, req'[p].key} :
                  /\ j \in DOMAIN redis' <=> j \in DOMAIN redis
                  /\ j \in DOMAIN redis => redis'[j] = redis[j]
        /\ (Returns(p, "Set") /\ out'.err = ErrKeyExists)
              => (req[p].key \in DOMAIN redis /\ redis' = redis)]_vars

\* C34 as stated: a call gives a key time to live, at its insertion or again
\* later, only if it is a Set or a Get of that key that returns nil; a Set
\* that returns ErrKeyExists leaves the time its key has left as it was, and
\* every call leaves the other keys as they were.
C34_OnlySuccessSetsTTL ==
    [][/\ \A p \in Procs :
            /\ pc'[p] # pc[p] =>
                  \A j \in StoreKeys \ {req[p].key, req'[p].key} :
                      /\ j \in DOMAIN redis' <=> j \in DOMAIN redis
                      /\ j \in DOMAIN redis => redis'[j] = redis[j]
            /\ (Returns(p, "Set") /\ out'.err = ErrKeyExists)
                  => (req[p].key \in DOMAIN redis /\ redis' = redis)
       /\ pc' # pc =>
            \A k \in DOMAIN redis' :
                (IF k \in DOMAIN redis THEN redis'[k].ttl # redis[k].ttl ELSE TRUE)
                    => \E p \in Procs :
                          /\ Returns(p, "Set") \/ Returns(p, "GetRefresh")
                          /\ req[p].key = k
                          /\ out'.err = Nil]_vars

\* A Set of test2 has returned the client's error, and test2 is in the store
\* with the full time to live, next to test1.
C34_Witness ==
    /\ out.req.kind = "Set" /\ out.req.key = "test2" /\ out.err = ErrRedis
    /\ "test1" \in DOMAIN redis
    /\ "test2" \in DOMAIN redis
    /\ redis["test2"].ttl = DefaultTTL /\ ~redis["test2"].refreshed

\* C35: no step of a Get adds a key to the store.  When the key has been
\* deleted or has expired between the GET and the EXPIRE, the EXPIRE changes
\* nothing, the key is absent after Get has returned, and Get returns the url
\* it fetched, with no error.
C35_GetNeverResurrects ==
    /\ [][\A p \in Procs :
            /\ (pc[p] = "Get" /\ pc'[p] # "Get") => redis' = redis
            /\ Returns(p, "GetRefresh")
                  => /\ DOMAIN redis' = DOMAIN redis
                     /\ req[p].key \notin DOMAIN redis => redis' = redis
                     /\ out'.err = Nil /\ out'.val = fetched[p]]_vars
    /\ [](\A p \in Procs : pc[p] = "GetRefresh" => fetched[p] # "")

\* A Get has returned the url of test1 although a Delete removed test1
\* between its two commands: test1 is not in the store.
C35_Witness ==
    /\ out.req.kind = "Get" /\ out.req.key = "test1"
    /\ out.err = Nil /\ out.val = "http://example.com"
    /\ "test1" \notin DOMAIN redis
    /\ TallyOf(tally, "test1").delOk = 1

\* The same with test1 expired, not deleted, between the two commands.
C35_WitnessExpired ==
    /\ out.req.kind = "Get" /\ out.req.key = "test1"
    /\ out.err = Nil /\ out.val = "http://example.com"
    /\ "test1" \notin DOMAIN redis
    /\ TallyOf(tally, "test1").lapsed

\* C36 as stated: the EXPIRE of a Get leaves the mapping under its key as it
\* is when that mapping is not the one whose url the GET read.
C36_RefreshOnlyOwnMapping ==
    [][\A p \in Procs :
        (/\ Returns(p, "GetRefresh")
         /\ req[p].key \in DOMAIN redis
         /\ redis[req[p].key].url # fetched[p])
            => redis'[req[p].key] = redis[req[p].key]]_vars

\* C36: the EXPIRE of a Get goes by key.  It gives whatever mapping is under
\* the key at that moment the full time to live, or leaves it alone when the
\* command was not executed; it changes no url, adds or removes no key and
\* touches no other key, and Get returns the url its GET read.
C36_RefreshIsByKey ==
    [][\A p \in Procs :
        Returns(p, "GetRefresh")
            => LET k == req[p].key
               IN  /\ DOMAIN redis' = DOMAIN redis
                   /\ \A j \in DOMAIN redis \ {k} : redis'[j] = redis[j]
                   /\ k \in DOMAIN redis
                         => \/ redis'[k] = redis[k]
                            \/ redis'[k] = [redis[k] EXCEPT !.ttl = DefaultTTL,
                                                            !.refreshed = TRUE]
                   /\ out'.err = Nil /\ out'.val = fetched[p]]_vars

\* A Get of test1 has returned the url it read, after test1 had expired and
\* another caller had stored test1 anew with another url an hour before the
\* EXPIRE: the new mapping has the full time to live again.
C36_Witness ==
    /\ out.req.kind = "Get" /\ out.req.key = "test1"
    /\ out.err = Nil /\ out.val = "http://example.com"
    /\ "test1" \in DOMAIN redis
    /\ redis["test1"] = [url |-> "http://another.com", ttl |-> DefaultTTL,
                         orig |-> DefaultTTL - 1, refreshed |-> TRUE]

-----------------------------------------------------------------------------
(* Properties of the handlers *)

Exhausted == "Failed to generate unique key after multiple attempts"
StoreFailed == "Failed to store URL"
InvalidKey == "Invalid URL key format"

\* C3: of the DeleteURL requests for a key that was created and has neither
\* been created again nor expired, exactly one is answered 200 and every other
\* 204 - unless the reply to the DEL that removed the key was lost - and once
\* one is answered 200 or 204 the key is gone, so that a Get returns
\* ErrNotFound.
C3_OneDeleteWins ==
    /\ \A k \in DOMAIN tally :
          LET t == tally[k]
          IN  /\ t.delOk <= 1
              /\ (t.born /\ ~t.lapsed /\ ~t.delLost /\ (t.delOk = 1 \/ t.delNotFound))
                    => (t.delOk = 1 /\ k \notin DOMAIN redis)
    /\ (out.req.kind = "DeleteURL" /\ out.status \in {200, 204})
          => /\ out.req.key \notin DOMAIN redis
             /\ GetFetch(redis, out.req.key, "answered").err = ErrNotFound
             /\ out.status = 200 => tally[out.req.key].delOk = 1
             /\ out.status = 204 => tally[out.req.key].delNotFound

\* Of two DeleteURL requests in all, for a key that was stored, the one of
\* caller 2 is answered 204: it was made while caller 1's, answered 200, was
\* in flight.
C3_Witness ==
    /\ nReqs = 2
    /\ out.p = 2 /\ out.req.kind = "DeleteURL" /\ out.status = 204
    /\ pc[1] = "idle"
    /\ tally[out.req.key].born /\ ~tally[out.req.key].lapsed
    /\ tally[out.req.key].delOk = 1 /\ ~tally[out.req.key].delLost

\* C4: a CreateURL request whose every Set returns ErrKeyExists calls Set
\* exactly 3 times, each after a Generate of its own, and is then answered
\* with the failure of exhaustion; no request calls Set a 4th time.
C4_ThreeAttemptsThenExhausted ==
    /\ \A p \in Procs :
          /\ calls[p].set < MaxAttempts
          /\ pc[p] = "set" => (calls[p].gen = calls[p].set + 1
                                /\ calls[p].set = attempts[p])
    /\ out.calls.set <= MaxAttempts
    /\ out.calls.gen <= MaxAttempts
    /\ out.error = Exhausted
          => (out.status = 500 /\ out.calls.set = 3 /\ out.calls.gen = 3)
    /\ (out.req.kind = "CreateURL" /\ out.calls.set = 3
            /\ out.status # 201 /\ out.error # StoreFailed)
          => out.error = Exhausted

\* A CreateURL request has been answered with the failure of exhaustion.
C4_Witness ==
    /\ out.req.kind = "CreateURL" /\ out.error = Exhausted
    /\ out.calls.set = 3 /\ out.calls.gen = 3

\* C5: a CreateURL request goes on to another pass only after a Set that
\* returned ErrKeyExists, so on a key that is present and with the store left
\* as it was; a request answered with the store's failure has called Generate
\* no more often than Set, and its caller is done with it.
C5_OnlyKeyExistsRetries ==
    /\ [][\A p \in Procs :
            (pc[p] = "set" /\ calls'[p].set > calls[p].set)
                => /\ cand[p] \in DOMAIN redis
                   /\ redis' = redis
                   /\ calls'[p].set = calls[p].set + 1
                   /\ calls'[p].gen = calls[p].gen + 1]_vars
    /\ [](out.error = StoreFailed
            => /\ out.status = 500
               /\ out.calls.gen = out.calls.set
               /\ out.calls.set \in 1..MaxAttempts
               /\ pc[out.p] = "idle" /\ calls[out.p] = NoCalls)

\* A CreateURL request is answered with the store's failure on its second
\* pass, the first having met a collision.
C5_Witness ==
    /\ out.req.kind = "CreateURL" /\ out.error = StoreFailed
    /\ out.calls.set = 2 /\ out.calls.gen = 2

\* C8: a RedirectURL or DeleteURL request whose key ValidateKey refuses is
\* answered 404 or 400 without a call of the store: the store is as it was.
C8_InvalidKeyStopsAtHandler ==
    [][(out'.req.kind \in {"RedirectURL", "DeleteURL"} /\ ~WellFormed(out'.req.key))
          => /\ out'.calls = NoCalls
             /\ redis' = redis
             /\ out'.error = InvalidKey
             /\ out'.status = IF out'.req.kind = "RedirectURL" THEN 404 ELSE 400]_vars

\* A DeleteURL request for a key of the wrong format has been answered 400
\* while a mapping was stored.
C8_Witness ==
    /\ out.req.kind = "DeleteURL" /\ out.req.key = "abc-1234" /\ out.status = 400
    /\ redis # <<>>

\* C14: a create request for u answered 201 with key K leaves K mapped to u,
\* and as long as K is neither deleted nor expired the store's Get of K gives
\* exactly u and a resolve request for K is answered 302 with u as its
\* target.
C14_CreateThenResolveRoundTrip ==
    /\ [](out.status = 201
            => /\ out.url = out.req.url
               /\ out.short_key \in DOMAIN redis
               /\ redis[out.short_key].url = out.url)
    /\ [](\A k \in DOMAIN tally :
            tally[k].setOk >= 1
                => /\ k \in DOMAIN redis
                   /\ GetFetch(redis, k, "answered") = [url |-> tally[k].okURL, err |-> Nil])
    /\ [][\A p \in Procs :
            /\ (pc[p] = "idle" /\ pc'[p] = "refresh" /\ TallyOf(tally, req'[p].key).setOk >= 1)
                  => fetched'[p] = tally[req'[p].key].okURL
            /\ Returns(p, "refresh")
                  => (out'.status = 302 /\ out'.location = fetched[p])]_vars

\* A create request was answered 201 for https://example.com and a resolve
\* request for its key redirected there.
C14_Witness ==
    /\ out.req.kind = "RedirectURL" /\ out.status = 302
    /\ out.location = "https://example.com"
    /\ out.req.key \in DOMAIN tally
    /\ tally[out.req.key].setOk = 1
    /\ tally[out.req.key].okURL = "https://example.com"

\* C16: create requests served at the same time never hand out the same key
\* twice, even when the generator gives them the same candidate: while a key
\* is mapped, at most one create request has been answered 201 with it, and
\* the mapping holds that request's url.
C16_NoKeyHandedOutTwice ==
    /\ \A k \in DOMAIN tally : tally[k].setOk <= 1
    /\ out.status = 201
          => /\ out.short_key \in DOMAIN tally
             /\ tally[out.short_key].setOk = 1
             /\ tally[out.short_key].okURL = out.url
             /\ out.short_key \in DOMAIN redis
             /\ redis[out.short_key].url = out.url

\* Two create requests overlapped, the second one's first candidate was
\* taken, and both were answered 201, with different keys.
C16_Witness ==
    /\ nReqs = 2 /\ out.p = 2
    /\ out.status = 201 /\ out.calls.set = 2
    /\ \E k \in DOMAIN tally :
          /\ DOMAIN tally = {k, out.short_key}
          /\ k # out.short_key
          /\ tally[k].setOk = 1
          /\ tally[k].okURL \in BodyURLs
          /\ k \in DOMAIN redis

\* C19: a delete request with a well-formed key is answered 200 when the
\* mapping existed and was removed, and 204, with no body, when the store
\* reports ErrNotFound; so the delete of a key already deleted is answered 204.
C19_DeleteAnswers200Or204 ==
    [][\A p \in Procs :
        Returns(p, "del")
            => LET k == req[p].key
               IN  /\ KeyOK[k]
                   /\ out'.status \in {200, 204, 500}
                   /\ out'.status = 200 <=> (k \in DOMAIN redis /\ out'.calls.del = 1
                                               /\ Delete(redis, k, "answered").err = Nil
                                               /\ tally'[k].delOk = TallyOf(tally, k).delOk + 1)
                   /\ out'.status = 200 => (k \notin DOMAIN redis' /\ out'.error = "")
                   /\ out'.status = 204 <=> (k \notin DOMAIN redis /\ tally'[k].delNotFound
                                               /\ out'.error = "")
                   /\ out'.status = 204 => redis' = redis
                   /\ (TallyOf(tally, k).delOk >= 1 /\ out'.status # 500)
                         => out'.status = 204]_vars

\* One caller's delete request for a stored key was answered 200 and the
\* same request, made again, 204.
C19_Witness ==
    /\ nReqs = 2
    /\ out.p = 1 /\ out.req.kind = "DeleteURL" /\ out.status = 204
    /\ tally[out.req.key].born /\ ~tally[out.req.key].lapsed
    /\ tally[out.req.key].delOk = 1 /\ ~tally[out.req.key].delLost

C23_ExhaustedIsNotStoreFailed ==
    /\ [](Exhausted # StoreFailed
            /\ (out.error = Exhausted => (out.status = 500 /\ out.calls.set = MaxAttempts))
            /\ (out.error = StoreFailed => (out.status = 500 /\ out.calls.set >= 1)))
    /\ [][\A p \in Procs :
            Returns(p, "set")
                => /\ out'.error = Exhausted
                         => /\ cand[p] \in DOMAIN redis
                            /\ redis' = redis
                            /\ tally'[cand[p]].setExists
                            /\ attempts[p] = MaxAttempts - 1
                   /\ cand[p] \notin DOMAIN redis
                         => \/ out'.status = 201
                            \/ out'.error = StoreFailed
                   /\ out'.error = StoreFailed
                         => /\ ~tally'[cand[p]].setExists
                                  \/ TallyOf(tally, cand[p]).setExists
                            /\ tally'[cand[p]].setOk = TallyOf(tally, cand[p]).setOk]_vars

\* The store failed on the third pass of a create request, after two
\* collisions, and the request was answered with the store's failure.
C23_Witness ==
    /\ out.req.kind = "CreateURL" /\ out.error = StoreFailed
    /\ out.status = 500
    /\ out.calls.set = 3 /\ out.calls.gen = 3

GenFailed == "Failed to generate key"

\* C26: when rand.Read fails Generate returns an error and no key, and the
\* create request that called it is answered at once with the generator's
\* failure: no Set follows that Generate, the request is over, and the store
\* is as it was.
C26_RandomFailureStopsCreate ==
    /\ [](\A b \in RandBufs :
            Generate(b, TRUE).err # Nil /\ Generate(b, TRUE).key = "")
    /\ [](out.error = GenFailed
            => /\ out.req.kind = "CreateURL" /\ out.status = 500
               /\ out.short_key = ""
               /\ out.calls.gen = out.calls.set + 1
               /\ out.calls.gen <= MaxAttempts
               /\ pc[out.p] = "idle" /\ cand[out.p] = "")
    /\ [][out'.error = GenFailed => redis' = redis]_vars
    /\ [][\A p \in Procs :
            (pc'[p] = "set" /\ (pc[p] = "idle" \/ cand'[p] # cand[p] \/ calls'[p] # calls[p]))
                => (cand'[p] \in {g.key : g \in {x \in Generated : x.err = Nil}}
                     /\ cand'[p] # "")]_vars

\* The generator failed on the second pass of a create request, after a
\* collision, and the request was answered with the generator's failure.
C26_Witness ==
    /\ out.req.kind = "CreateURL" /\ out.error = GenFailed
    /\ out.status = 500
    /\ out.calls.gen = 2 /\ out.calls.set = 1

\* A url that starts with neither http:// nor https://, whatever the case of
\* the letters.
HasPrefix(s, prefix) == Len(s) >= Len(prefix) /\ SubSeq(s, 1, Len(prefix)) = prefix
NotHTTP(u) ==
    ~(\/ HasPrefix(ToLower(u), "http://")
      \/ HasPrefix(ToLower(u), "https://"))

\* The urls of create requests that are of that kind.
BadURLs == {u \in BodyURLs : NotHTTP(u)}

\* C27: a create request whose url is missing or empty, not absolute, or of
\* a scheme other than http and https is answered 400 before anything else
\* happens: Generate is not called, the store is not called and is as it
\* was, and no request with such a url ever reaches the loop.
C27_BadURLRejectedFirst ==
    /\ [](\A p \in Procs : pc[p] = "set" => req[p].url \notin BadURLs)
    /\ []((out.req.kind = "CreateURL" /\ out.req.url \in BadURLs)
            => /\ out.status = 400
               /\ out.calls = NoCalls
               /\ out.short_key = ""
               /\ out.error = (IF out.req.url = "" THEN "Invalid request body"
                               ELSE "Invalid URL. Must be absolute with http(s) scheme"))
    /\ [][(out'.req.kind = "CreateURL" /\ out'.req.url \in BadURLs)
            => (redis' = redis /\ tally' = tally /\ pc' = pc)]_vars

\* A create request for an ftp url was answered 400 without a call, the
\* store holding a mapping.
C27_Witness ==
    /\ out.req.kind = "CreateURL" /\ out.req.url = "ftp://example.com"
    /\ out.status = 400 /\ out.calls = NoCalls
    /\ redis # <<>>

\* C28: when a command does not reach the store, Set, Get and Delete return
\* the error after that one command, with the store as it was, and the
\* handlers do not try again: a create request is answered with the store's
\* failure and is over, and a resolve or delete request calls the store at
\* most once.
C28_UnreachableStoreFailsOnce ==
    /\ [](\A k \in GenKeys :
            /\ Set(redis, k, "https://example.com", "unsent")
                  = [redis |-> redis, err |-> ErrRedis, sent |-> FALSE]
            /\ GetFetch(redis, k, "unsent") = [url |-> "", err |-> ErrRedis]
            /\ Delete(redis, k, "unsent") = [redis |-> redis, err |-> ErrRedis])
    /\ [](\A p \in Procs : calls[p].get <= 1 /\ calls[p].del <= 1 /\ calls[p].expire <= 1)
    /\ [](out.req.kind = "RedirectURL"
            => /\ out.calls.get <= 1 /\ out.calls.expire <= out.calls.get
               /\ out.calls.set = 0 /\ out.calls.del = 0
               /\ out.status = 500 => (out.calls.get = 1 /\ out.calls.expire = 0
                                        /\ out.error = "Failed to retrieve URL"))
    /\ [](out.req.kind = "DeleteURL"
            => /\ out.calls.del <= 1
               /\ out.calls.set = 0 /\ out.calls.get = 0 /\ out.calls.expire = 0
               /\ out.status = 500 => (out.calls.del = 1
                                        /\ out.error = "Failed to delete URL"))
    /\ [][\A p \in Procs :
            /\ (pc[p] = "set" /\ cand[p] \notin DOMAIN redis /\ redis' = redis
                  /\ calls'[p] # calls[p])
                  => /\ pc'[p] = "idle"
                     /\ out'.status = 500 /\ out'.error = StoreFailed
                     /\ out'.calls.set = calls[p].set + 1
                     /\ out'.calls.gen = calls[p].gen
            /\ (pc[p] = "del" /\ req[p].key \in DOMAIN redis /\ redis' = redis
                  /\ calls'[p] # calls[p])
                  => /\ pc'[p] = "idle"
                     /\ out'.status = 500 /\ out'.calls.del = 1]_vars

\* A delete request for a stored key was answered 500 after one call of the
\* store, which the command did not reach: the mapping is still there.
C28_Witness ==
    /\ out.req.kind = "DeleteURL" /\ out.status = 500
    /\ out.error = "Failed to delete URL"
    /\ out.calls.del = 1
    /\ out.req.key \in DOMAIN redis

\* C29: every create request ends, in exactly one of three ways - created,
\* exhausted, failed - after at most 3 calls of Generate and at most 3 of
\* Set.  Each pass of the loop either answers the request or counts one more
\* attempt, of which there are fewer than 3; so a request that goes on
\* running is answered, however the store and the generator behave.
C29_CreateTerminates ==
    /\ [](\A p \in Procs :
            /\ attempts[p] < MaxAttempts
            /\ calls[p].gen <= MaxAttempts /\ calls[p].set < MaxAttempts)
    /\ []((out.req.kind = "CreateURL" /\ out.calls.gen >= 1)
            => /\ out.calls.gen <= MaxAttempts /\ out.calls.set <= MaxAttempts
               /\ Cardinality({i \in 1..3 :
                     \/ i = 1 /\ out.status = 201 /\ out.error = ""
                     \/ i = 2 /\ out.status = 500 /\ out.error = Exhausted
                     \/ i = 3 /\ out.status = 500
                              /\ out.error \in {StoreFailed, GenFailed}}) = 1)
    /\ [][\A p \in Procs :
            (pc[p] = "set" /\ calls'[p] # calls[p])
                => \/ pc'[p] = "idle" /\ out'.p = p /\ out'.req.kind = "CreateURL"
                   \/ pc'[p] = "set" /\ attempts'[p] = attempts[p] + 1]_vars
    /\ \A p \in Procs : []<>(pc[p] # "set")

\* A create request has been answered 201 on its third pass, after two
\* collisions.
C29_Witness ==
    /\ out.req.kind = "CreateURL" /\ out.status = 201
    /\ out.calls.gen = 3 /\ out.calls.set = 3

\* C30 as stated: create requests for the same url are answered with the
\* same key and leave one mapping: no two keys that create requests were
\* answered 201 with, and that are still mapped, hold the same url.
C30_CreateIsIdempotent ==
    \A k1, k2 \in DOMAIN tally :
        (/\ tally[k1].setOk >= 1 /\ tally[k2].setOk >= 1
         /\ tally[k1].okURL = tally[k2].okURL)
            => k1 = k2

\* C31: a create request that succeeds on its second or third pass, after
\* collisions, is answered with the candidate of that pass, which is the key
\* its Set inserted, mapped to the url of the request; every pass that met a
\* collision left the store as it was, and the inserting pass changed no
\* other key.
C31_RetryReturnsInsertedKey ==
    [][\A p \in Procs :
        /\ (Returns(p, "set") /\ out'.status = 201)
              => /\ out'.short_key = cand[p] /\ out'.url = req[p].url
                 /\ out'.calls.set = attempts[p] + 1
                 /\ cand[p] \notin DOMAIN redis
                 /\ redis' = Put(redis, cand[p], Fresh(req[p].url, DefaultTTL))
        /\ (pc[p] = "set" /\ pc'[p] = "set" /\ calls'[p] # calls[p])
              => /\ cand[p] \in DOMAIN redis
                 /\ redis' = redis
                 /\ attempts'[p] = attempts[p] + 1]_vars

\* A create request collided with the stored key on its first pass and was
\* answered 201 with another key on its second; the stored mapping is as it
\* was.
C31_Witness ==
    /\ out.req.kind = "CreateURL" /\ out.status = 201
    /\ out.calls.set = 2 /\ out.calls.gen = 2
    /\ "00000000" \in DOMAIN redis
    /\ redis["00000000"] = Fresh("http://example.com", DefaultTTL)
    /\ out.short_key # "00000000"
    /\ redis[out.short_key].url = out.req.url

\* C33: a create request that is answered with the exhausted retries, or with
\* the generator's failure, has had ErrKeyExists from every Set it called, and
\* none of its steps touched the store: no mapping added, no url changed, no
\* time to live set again, no successful Set counted.
C33_FailedCreateLeavesStore ==
    [][\A p \in Procs :
        LET starts == pc[p] = "idle" /\ pc'[p] = "set"
            collides == pc[p] = "set" /\ pc'[p] = "set" /\ calls'[p] # calls[p]
            gives_up == Returns(p, "set") /\ out'.error \in {Exhausted, GenFailed}
            refused == /\ pc[p] = "idle" /\ pc'[p] = "idle" /\ out'.p = p
                       /\ out'.req.kind = "CreateURL" /\ out' # out
        IN  /\ (starts \/ refused) => (redis' = redis /\ tally' = tally)
            /\ (collides \/ gives_up)
                  => /\ Set(redis, cand[p], req[p].url, "answered").err = ErrKeyExists
                     /\ redis' = redis
                     /\ DOMAIN tally' = DOMAIN tally
                     /\ \A k \in DOMAIN tally :
                           /\ tally'[k].setOk = tally[k].setOk
                           /\ tally'[k].setLost = tally[k].setLost]_vars

\* A create request gave up after three Sets, each a collision with the one
\* mapping stored, which an hour has aged and which is still all there is.
C33_Witness ==
    /\ out.req.kind = "CreateURL" /\ out.error = Exhausted
    /\ out.calls.set = MaxAttempts
    /\ DOMAIN redis = {"00000000"}
    /\ redis["00000000"] = [Fresh("http://example.com", DefaultTTL) EXCEPT
                               !.ttl = DefaultTTL - 1, !.orig = DefaultTTL - 1]

\* The urls a create request can be answered 201 for.
GoodURLs == {u \in BodyURLs : URLOK[u]}

\* C37 as stated: from the moment a create request is answered 201 with key k
\* for url u, a resolve of k finds either nothing or u, whatever happens
\* between.
C37_KeyNeverChangesURL ==
    \A k \in GenKeys, u \in GoodURLs :
        []((out.status = 201 /\ out.short_key = k /\ out.url = u)
              => [](\/ GetFetch(redis, k, "answered").err = ErrNotFound
                    \/ GetFetch(redis, k, "answered").url = u))

\* C37: a key keeps its url for as long as its mapping is stored: no step
\* changes the url under a key that stays, a url comes under a key only by a
\* create request's Set while the key is absent, and a resolve request
\* redirects to the url that was under the key when it read it.  Once the
\* mapping is deleted or expired the key can be handed out again, for any url.
C37_KeyKeepsURLWhileStored ==
    [][/\ \A k \in DOMAIN redis :
            k \in DOMAIN redis' => redis'[k].url = redis[k].url
       /\ \A k \in DOMAIN redis' \ DOMAIN redis :
            \E p \in Procs :
                /\ pc[p] = "set" /\ cand[p] = k
                /\ redis'[k].url = req[p].url
                /\ out'.status = 201 => (out'.short_key = k /\ out'.url = redis'[k].url)
       /\ \A p \in Procs :
            /\ (pc[p] = "idle" /\ pc'[p] = "refresh")
                  => (req'[p].key \in DOMAIN redis
                        /\ fetched'[p] = redis[req'[p].key].url)
            /\ Returns(p, "refresh")
                  => (out'.status = 302 /\ out'.location = fetched[p])]_vars

\* The one request so far, a create for http://another.com, met a collision
\* with the stored key 00000000, whose url was http://example.com; that
\* mapping then expired, the next pass drew 00000000 again, and the request
\* was answered 201: 00000000 now leads to http://another.com.
C37_Witness ==
    /\ nReqs = 1
    /\ out.req.kind = "CreateURL" /\ out.status = 201
    /\ out.calls.set = 2
    /\ out.short_key = "00000000" /\ out.url = "http://another.com"
    /\ redis["00000000"].url = "http://another.com"

====
